---- MODULE Spec2Model ----
(***************************************************************************)
(* Undo-record codec of src/blockdata/undo.rs: TxOutUndo encode / decode,  *)
(* the amount decompression function and BlockUndo::get_size.              *)
(*                                                                         *)
(* usize values that can exceed 2^31 (amounts) are kept as decimal digit   *)
(* sequences, least significant digit first, without leading zeros; the    *)
(* empty sequence is 0.  The machine width of usize and the overflow       *)
(* behaviour of `*` are fixed by the build (target pointer width, and      *)
(* overflow-checks on or off), held in the variable build.                 *)
(***************************************************************************)
EXTENDS Integers, Sequences, FiniteSets, TLC

VARIABLES
    build,              \* [bits, overflow_checks]: the target and profile of the build
    pc,                 \* position of the operation in progress
    \* ---- decompress_txout_amt called on its own
    value_compressed,   \* argument of decompress_txout_amt
    other_compressed,   \* argument of a second, independent call
    amt_result,         \* outcome of the first call
    other_result,       \* outcome of the second call
    \* ---- TxOutUndo codec
    fields,             \* the field values the input record is framed from
    src,                \* where the reader's bytes come from: "encoded" or "wire"
    x,                  \* the TxOutUndo value handed to consensus_encode
    out,                \* bytes written to the sink by consensus_encode
    wire,               \* bytes of the reader handed to consensus_decode
    pos,                \* number of bytes of wire consumed so far
    height_code,        \* locals of consensus_decode
    is_coin_base,
    height,
    amount_compressed,
    amount,
    script_len_code,
    script_pubkey_buf,
    result,             \* outcome of consensus_decode
    \* ---- BlockUndo size accounting
    blk,                \* the BlockUndo value
    size_result         \* outcome of BlockUndo::get_size

amtVars == <<value_compressed, other_compressed, amt_result, other_result>>
codecVars == <<fields, src, x, out, wire, pos, height_code, is_coin_base, height,
               amount_compressed, amount, script_len_code, script_pubkey_buf, result>>
sizeVars == <<blk, size_result>>
vars == <<build, pc, amtVars, codecVars, sizeVars>>

\* ---------------------------------------------------------------- bounds
MaxPacked == 100

\* ---------------------------------------------------------------- outcomes
Ok(v) == [tag |-> "Ok", val |-> v]
Err(k) == [tag |-> "Err", kind |-> k]
Panic == [tag |-> "Panic"]
None == [tag |-> "None"]

\* ------------------------------------------------- unsigned integer arithmetic
RECURSIVE ToDec(_)
ToDec(n) == IF n = 0 THEN <<>> ELSE <<n % 10>> \o ToDec(n \div 10)

RECURSIVE DecVal(_)
DecVal(d) == IF d = <<>> THEN 0 ELSE Head(d) + 10 * DecVal(Tail(d))

RECURSIVE DecNorm(_)
DecNorm(d) ==
    IF d = <<>> THEN <<>>
    ELSE IF d[Len(d)] = 0 THEN DecNorm(SubSeq(d, 1, Len(d) - 1))
    ELSE d

DecRest(d) == IF d = <<>> THEN <<>> ELSE Tail(d)
DecLow(d) == IF d = <<>> THEN 0 ELSE Head(d)

RECURSIVE DecAddC(_, _, _)
DecAddC(a, b, c) ==
    IF a = <<>> /\ b = <<>> THEN (IF c = 0 THEN <<>> ELSE <<c>>)
    ELSE LET s == DecLow(a) + DecLow(b) + c
         IN  <<s % 10>> \o DecAddC(DecRest(a), DecRest(b), s \div 10)

DecAdd(a, b) == DecAddC(a, b, 0)

\* a - b for a >= b
RECURSIVE DecSubB(_, _, _)
DecSubB(a, b, c) ==
    IF a = <<>> THEN <<>>
    ELSE LET s == DecLow(a) - DecLow(b) - c
         IN  IF s < 0 THEN <<s + 10>> \o DecSubB(Tail(a), DecRest(b), 1)
             ELSE <<s>> \o DecSubB(Tail(a), DecRest(b), 0)

DecSub(a, b) == DecNorm(DecSubB(a, b, 0))

RECURSIVE DecMulSmallC(_, _, _)
DecMulSmallC(a, k, c) ==
    IF a = <<>> THEN ToDec(c)
    ELSE LET s == Head(a) * k + c
         IN  <<s % 10>> \o DecMulSmallC(Tail(a), k, s \div 10)

RECURSIVE DecMulR(_, _)
DecMulR(a, b) ==
    IF b = <<>> THEN <<>>
    ELSE DecAdd(DecMulSmallC(a, Head(b), 0), <<0>> \o DecMulR(a, Tail(b)))

DecMul(a, b) == DecNorm(DecMulR(a, b))

\* quotient and remainder of a by a small k > 0
RECURSIVE DecDivStep(_, _)
DecDivStep(a, k) ==
    IF a = <<>> THEN [q |-> <<>>, r |-> 0]
    ELSE LET hi == DecDivStep(Tail(a), k)
             cur == hi.r * 10 + Head(a)
         IN  [q |-> <<cur \div k>> \o hi.q, r |-> cur % k]

DecDiv(a, k) == DecNorm(DecDivStep(a, k).q)
DecRem(a, k) == DecDivStep(a, k).r

RECURSIVE DecLessAt(_, _, _)
DecLessAt(a, b, i) ==
    IF i = 0 THEN FALSE
    ELSE IF a[i] # b[i] THEN a[i] < b[i]
    ELSE DecLessAt(a, b, i - 1)

DecLess(a, b) ==
    \/ Len(a) < Len(b)
    \/ Len(a) = Len(b) /\ DecLessAt(a, b, Len(a))

RECURSIVE DecReduce(_, _)
DecReduce(c, m) == IF DecLess(c, m) THEN c ELSE DecReduce(DecSub(c, m), m)

\* a mod m
RECURSIVE DecMod(_, _)
DecMod(a, m) ==
    IF a = <<>> THEN <<>>
    ELSE DecReduce(DecNorm(<<Head(a)>> \o DecMod(Tail(a), m)), m)

RECURSIVE DecPow(_, _)
DecPow(b, e) == IF e = 0 THEN <<1>> ELSE DecMul(b, DecPow(b, e - 1))

\* 2^bits: one more than the largest usize of the build
TwoTo32 == DecMul(ToDec(65536), ToDec(65536))
TwoTo64 == DecMul(TwoTo32, TwoTo32)
UsizeRange(bits) == IF bits = 32 THEN TwoTo32 ELSE TwoTo64

\* usize multiplication a * b: exact when it fits; otherwise the build decides,
\* a panic with overflow checks and the wrapped product without
usize_mul(a, b, bld) ==
    LET p == DecMul(a, b)
    IN  IF DecLess(p, UsizeRange(bld.bits)) THEN Ok(p)
        ELSE IF bld.overflow_checks THEN Panic
        ELSE Ok(DecMod(p, UsizeRange(bld.bits)))

\* ------------------------------------------------------ decompress_txout_amt
\* variant: the exponent-9 branch forgets the + 1
decompress_no_increment(v, bld) ==
    IF v = <<>> THEN Ok(<<>>)
    ELSE LET vc1 == DecSub(v, <<1>>)
             exponent == DecRem(vc1, 10)
             vc2 == DecDiv(vc1, 10)
             n == IF exponent < 9
                  THEN LET last_digit == DecRem(vc2, 9) + 1
                           vc3 == DecDiv(vc2, 9)
                       IN  DecAdd(DecMul(vc3, ToDec(10)), ToDec(last_digit))
                  ELSE vc2
         IN  usize_mul(n, DecPow(ToDec(10), exponent), bld)

\* variant: last_digit is taken as value % 9, without the + 1
decompress_digit_from_zero(v, bld) ==
    IF v = <<>> THEN Ok(<<>>)
    ELSE LET vc1 == DecSub(v, <<1>>)
             exponent == DecRem(vc1, 10)
             vc2 == DecDiv(vc1, 10)
             n == IF exponent < 9
                  THEN LET last_digit == DecRem(vc2, 9)
                           vc3 == DecDiv(vc2, 9)
                       IN  DecAdd(DecMul(vc3, ToDec(10)), ToDec(last_digit))
                  ELSE DecAdd(vc2, <<1>>)
         IN  usize_mul(n, DecPow(ToDec(10), exponent), bld)

decompress_txout_amt(v, bld) ==
    IF v = <<>> THEN Ok(<<>>)
    ELSE LET vc1 == DecSub(v, <<1>>)
             exponent == DecRem(vc1, 10)
             vc2 == DecDiv(vc1, 10)
             n == IF exponent < 9
                  THEN LET last_digit == DecRem(vc2, 9) + 1
                           vc3 == DecDiv(vc2, 9)
                       IN  DecAdd(DecMul(vc3, ToDec(10)), ToDec(last_digit))
                  ELSE DecAdd(vc2, <<1>>)
         IN  usize_mul(n, DecPow(ToDec(10), exponent), bld)

\* ------------------------------------------------ external stream primitives
\* Alternate compact integer (VarInt2): base-128 digits, most significant first,
\* the top bit of a byte set when another byte follows, one added per continuation.
RECURSIVE VarInt2_read(_, _, _)
VarInt2_read(w, p, n) ==
    IF p >= Len(w) THEN Err("UnexpectedEof")
    ELSE LET ch == w[p + 1]
             m == n * 128 + (ch % 128)
         IN  IF ch >= 128 THEN VarInt2_read(w, p + 1, m + 1)
             ELSE [tag |-> "Ok", val |-> m, next |-> p + 1]

VarInt2_consensus_decode(w, p) == VarInt2_read(w, p, 0)

RECURSIVE VarInt2_high(_)
VarInt2_high(m) ==
    IF m < 128 THEN <<m + 128>>
    ELSE VarInt2_high((m \div 128) - 1) \o <<(m % 128) + 128>>

VarInt2_consensus_encode(n) ==
    IF n < 128 THEN <<n>>
    ELSE VarInt2_high((n \div 128) - 1) \o <<n % 128>>

\* ReadExt::read_u8: one byte, or a stream error at the end of the input
read_u8(w, p) ==
    IF p >= Len(w) THEN Err("UnexpectedEof")
    ELSE [tag |-> "Ok", val |-> w[p + 1], next |-> p + 1]

\* ReadExt::read_slice: exactly n bytes, or a stream error on a short read
read_slice(w, p, n) ==
    IF p + n > Len(w) THEN Err("UnexpectedEof")
    ELSE [tag |-> "Ok", val |-> SubSeq(w, p + 1, p + n), next |-> p + n]

\* bool::consensus_encode: the single byte 1 or 0
bool_consensus_encode(b) == <<IF b THEN 1 ELSE 0>>

\* CompressedScript::consensus_decode on a type-code-prefixed buffer; accept is
\* the collaborator's verdict on the type code and payload
CompressedScript_consensus_decode(buf, accept) ==
    IF accept /\ buf # <<>>
    THEN Ok([code |-> buf[1], payload |-> Tail(buf)])
    ELSE Err("ParseFailed")

\* Standard compact integer (VarInt) of a count below 2^16, and its length
VarInt_consensus_encode(n) ==
    IF n <= 252 THEN <<n>> ELSE <<253, n % 256, n \div 256>>

VarInt_len(n) ==
    IF n <= 252 THEN 1
    ELSE IF n <= 65535 THEN 3
    ELSE 5

\* ------------------------------------------------------- TxOutUndo encoder
TxOutUndo_consensus_encode(self) == bool_consensus_encode(self.is_coin_base)

\* ------------------------------------------------------- TxOutUndo decoder
\* variant: the division rounds up
unpack_height_rounding_up(code) == (code + 1) \div 2

unpack_is_coin_base(code) == IF code % 2 = 1 THEN TRUE ELSE FALSE

unpack_height(code) == code \div 2

script_len(code) ==
    IF code \in {0, 1} THEN 20
    ELSE IF code \in 2 .. 5 THEN 32
    ELSE code - 6

\* variant: the outcome of read_slice is dropped, the buffer keeps what was read
fill_script_pubkey_buf_unchecked(w, p, code) ==
    [tag |-> "Ok",
     val |-> <<code % 256>> \o
             [i \in 1 .. script_len(code) |-> IF p + i <= Len(w) THEN w[p + i] ELSE 0],
     next |-> IF p + script_len(code) <= Len(w) THEN p + script_len(code) ELSE Len(w)]

\* vec![0u8; script_len + 1], the type code cast to u8 in front, then read_slice
\* into the rest with `?`
fill_script_pubkey_buf(w, p, code) ==
    LET r == read_slice(w, p, script_len(code))
    IN  IF r.tag = "Ok"
        THEN [tag |-> "Ok", val |-> <<code % 256>> \o r.val, next |-> r.next]
        ELSE r

\* .unwrap() of the collaborator's outcome
unwrap(r) == IF r.tag = "Ok" THEN r ELSE Panic

\* ------------------------------------------------------------------ builds
Builds == [bits : {32, 64}, overflow_checks : BOOLEAN]

\* hi * 10^6 + lo
BigDec(hi, lo) == DecAdd(DecMul(ToDec(hi), ToDec(1000000)), ToDec(lo))

\* arguments of decompress_txout_amt: the small ones, some with a mantissa of
\* several digits, the largest 32-bit usize, and the ones around the first
\* product that leaves 64 bits
PackedInputs ==
    {ToDec(i) : i \in 0 .. MaxPacked}
        \cup {ToDec(811), ToDec(8110), ToDec(123456),
              BigDec(4294, 967295), BigDec(184467, 440730), BigDec(184467, 440731),
              BigDec(184467, 440740)}

\* ------------------------------------------------------------ idle parts
CodecIdle ==
    /\ fields = [h |-> 0, cb |-> FALSE, rb |-> 0, ac |-> 0, sc |-> 0]
    /\ src = "none"
    /\ x = [is_coin_base |-> FALSE, height |-> 0, amount |-> <<>>,
            script_pubkey |-> [code |-> 0, payload |-> <<>>]]
    /\ out = <<>>
    /\ wire = <<>>
    /\ pos = 0
    /\ height_code = 0
    /\ is_coin_base = FALSE
    /\ height = 0
    /\ amount_compressed = 0
    /\ amount = <<>>
    /\ script_len_code = 0
    /\ script_pubkey_buf = <<>>
    /\ result = None

AmtIdle ==
    /\ value_compressed = <<>>
    /\ other_compressed = <<>>
    /\ amt_result = None
    /\ other_result = None

SizeIdle ==
    /\ blk = <<>>
    /\ size_result = None

\* ------------------------------------------- decompress_txout_amt on its own
InitAmt ==
    /\ build \in Builds
    /\ pc = "amt_call"
    /\ value_compressed \in {v \in PackedInputs : DecLess(v, UsizeRange(build.bits))}
    /\ other_compressed \in
          {v \in PackedInputs : /\ DecLess(v, UsizeRange(build.bits))
                                /\ ~DecLess(v, value_compressed)}
    /\ amt_result = None
    /\ other_result = None
    /\ CodecIdle
    /\ SizeIdle

Decompress ==
    /\ pc = "amt_call"
    /\ amt_result' = decompress_txout_amt(value_compressed, build)
    /\ other_result' = decompress_txout_amt(other_compressed, build)
    /\ pc' = "amt_done"
    /\ UNCHANGED <<build, value_compressed, other_compressed, codecVars, sizeVars>>

NextAmt == Decompress

SpecAmt == InitAmt /\ [][NextAmt]_vars

\* --------------------------------------------------------- input records
MaxHeight == 1

Heights == 0 .. MaxHeight \cup {64}
ReservedBytes == {0, 255}
AmtCodes == {1, 10, 50, 811}
ScriptCodes == {0, 1, 2, 5, 6, 7, 10, 262}

FrameFields ==
    [h : Heights, cb : BOOLEAN, rb : ReservedBytes, ac : AmtCodes, sc : ScriptCodes]
        \cup [h : {0}, cb : {TRUE}, rb : {0}, ac : 0 .. MaxPacked, sc : {0}]

pack(h, c) == h * 2 + (IF c THEN 1 ELSE 0)

Payload(code) == [i \in 1 .. script_len(code) |-> (i * 7) % 256]

\* the wire layout of one TxOutUndo
Frame(f) ==
    VarInt2_consensus_encode(pack(f.h, f.cb)) \o <<f.rb>>
        \o VarInt2_consensus_encode(f.ac) \o VarInt2_consensus_encode(f.sc)
        \o Payload(f.sc)

\* the amount a packed integer stands for: mantissa followed by exponent zeros
PackedExponent(v) == (v - 1) % 10
PackedMantissa(v) ==
    LET q == (v - 1) \div 10
    IN  IF PackedExponent(v) < 9 THEN 10 * (q \div 9) + (q % 9) + 1 ELSE q + 1
ExactAmount(v) ==
    IF v = 0 THEN <<>>
    ELSE [i \in 1 .. PackedExponent(v) |-> 0] \o ToDec(PackedMantissa(v))

TxOutUndoOf(f) ==
    [is_coin_base |-> f.cb, height |-> f.h, amount |-> ExactAmount(f.ac),
     script_pubkey |-> [code |-> f.sc, payload |-> Payload(f.sc)]]

MaxHeaderCut == 4

\* readers handed to the decoder: the record, the record with its last byte
\* missing, shorter prefixes, and the record followed by another byte
Readers(f) ==
    LET fr == Frame(f)
    IN  {SubSeq(fr, 1, k) :
            k \in {j \in 0 .. MaxHeaderCut : j <= Len(fr)} \cup {Len(fr) - 1, Len(fr)}}
            \cup {fr \o <<238>>}

\* ---------------------------------------------------------- TxOutUndo codec
Init ==
    /\ build \in Builds
    /\ pc = "idle"
    /\ fields \in FrameFields
    /\ src = "none"
    /\ x = TxOutUndoOf(fields)
    /\ out = <<>>
    /\ wire = <<>>
    /\ pos = 0
    /\ height_code = 0
    /\ is_coin_base = FALSE
    /\ height = 0
    /\ amount_compressed = 0
    /\ amount = <<>>
    /\ script_len_code = 0
    /\ script_pubkey_buf = <<>>
    /\ result = None
    /\ AmtIdle
    /\ SizeIdle

decodeLocals == <<height_code, is_coin_base, height, amount_compressed, amount,
                  script_len_code, script_pubkey_buf>>

\* TxOutUndo::consensus_encode(x, sink)
Encode ==
    /\ pc = "idle"
    /\ out' = TxOutUndo_consensus_encode(x)
    /\ pc' = "encoded"
    /\ UNCHANGED <<build, fields, src, x, wire, pos, decodeLocals, result,
                   amtVars, sizeVars>>

\* consensus_decode is called on the bytes the encoder wrote
DecodeEncoded ==
    /\ pc = "encoded"
    /\ wire' = out
    /\ src' = "encoded"
    /\ pos' = 0
    /\ pc' = "height"
    /\ UNCHANGED <<build, fields, x, out, decodeLocals, result, amtVars, sizeVars>>

\* consensus_decode is called on bytes read from a file
DecodeWire ==
    /\ pc = "idle"
    /\ \E w \in Readers(fields) : wire' = w
    /\ src' = "wire"
    /\ pos' = 0
    /\ pc' = "height"
    /\ UNCHANGED <<build, fields, x, out, decodeLocals, result, amtVars, sizeVars>>

\* lines 105-110
DecodeHeight ==
    /\ pc = "height"
    /\ LET r == VarInt2_consensus_decode(wire, pos)
       IN  IF r.tag = "Ok"
           THEN /\ height_code' = r.val
                /\ is_coin_base' = unpack_is_coin_base(r.val)
                /\ height' = unpack_height(r.val)
                /\ pos' = r.next
                /\ pc' = "reserved"
                /\ UNCHANGED result
           ELSE /\ result' = r
                /\ pc' = "done"
                /\ UNCHANGED <<height_code, is_coin_base, height, pos>>
    /\ UNCHANGED <<build, fields, src, x, out, wire, amount_compressed, amount,
                   script_len_code, script_pubkey_buf, amtVars, sizeVars>>

\* line 114
SkipReserved ==
    /\ pc = "reserved"
    /\ LET r == read_u8(wire, pos)
       IN  IF r.tag = "Ok"
           THEN /\ pos' = r.next
                /\ pc' = "amount"
                /\ UNCHANGED result
           ELSE /\ result' = r
                /\ pc' = "done"
                /\ UNCHANGED pos
    /\ UNCHANGED <<build, fields, src, x, out, wire, decodeLocals, amtVars, sizeVars>>

\* lines 117-118
DecodeAmount ==
    /\ pc = "amount"
    /\ LET r == VarInt2_consensus_decode(wire, pos)
       IN  IF r.tag = "Ok"
           THEN LET a == decompress_txout_amt(ToDec(r.val), build)
                IN  /\ amount_compressed' = r.val
                    /\ pos' = r.next
                    /\ IF a.tag = "Ok"
                       THEN /\ amount' = a.val
                            /\ pc' = "script_code"
                            /\ UNCHANGED result
                       ELSE /\ result' = a
                            /\ pc' = "done"
                            /\ UNCHANGED amount
           ELSE /\ result' = r
                /\ pc' = "done"
                /\ UNCHANGED <<amount_compressed, amount, pos>>
    /\ UNCHANGED <<build, fields, src, x, out, wire, height_code, is_coin_base, height,
                   script_len_code, script_pubkey_buf, amtVars, sizeVars>>

\* lines 121-126
DecodeScriptCode ==
    /\ pc = "script_code"
    /\ LET r == VarInt2_consensus_decode(wire, pos)
       IN  IF r.tag = "Ok"
           THEN /\ script_len_code' = r.val
                /\ pos' = r.next
                /\ pc' = "payload"
                /\ UNCHANGED result
           ELSE /\ result' = r
                /\ pc' = "done"
                /\ UNCHANGED <<script_len_code, pos>>
    /\ UNCHANGED <<build, fields, src, x, out, wire, height_code, is_coin_base, height,
                   amount_compressed, amount, script_pubkey_buf, amtVars, sizeVars>>

\* lines 129-133
ReadPayload ==
    /\ pc = "payload"
    /\ LET r == fill_script_pubkey_buf(wire, pos, script_len_code)
       IN  IF r.tag = "Ok"
           THEN /\ script_pubkey_buf' = r.val
                /\ pos' = r.next
                /\ pc' = "script"
                /\ UNCHANGED result
           ELSE /\ result' = r
                /\ pc' = "done"
                /\ UNCHANGED <<script_pubkey_buf, pos>>
    /\ UNCHANGED <<build, fields, src, x, out, wire, height_code, is_coin_base, height,
                   amount_compressed, amount, script_len_code, amtVars, sizeVars>>

\* lines 135-141
DecodeScript ==
    /\ pc = "script"
    /\ \E accept \in BOOLEAN :
          LET r == unwrap(CompressedScript_consensus_decode(script_pubkey_buf, accept))
          IN  result' = IF r.tag = "Ok"
                        THEN Ok([is_coin_base |-> is_coin_base, height |-> height,
                                 amount |-> amount, script_pubkey |-> r.val])
                        ELSE r
    /\ pc' = "done"
    /\ UNCHANGED <<build, fields, src, x, out, wire, pos, decodeLocals, amtVars, sizeVars>>

Next ==
    \/ Encode
    \/ DecodeEncoded
    \/ DecodeWire
    \/ DecodeHeight
    \/ SkipReserved
    \/ DecodeAmount
    \/ DecodeScriptCode
    \/ ReadPayload
    \/ DecodeScript

Spec == Init /\ [][Next]_vars

\* ------------------------------------------------- BlockUndo size accounting
\* todo!()
TxUndo_get_size(tx) == Panic

\* self.txdata_undo.iter().map(TxUndo::get_size).sum()
RECURSIVE sum_sizes(_)
sum_sizes(txs) ==
    IF txs = <<>> THEN Ok(0)
    ELSE LET head == TxUndo_get_size(Head(txs))
             rest == sum_sizes(Tail(txs))
         IN  IF head.tag # "Ok" THEN head
             ELSE IF rest.tag # "Ok" THEN rest
             ELSE Ok(head.val + rest.val)

BlockUndo_get_size(self) ==
    LET tx_count_len == VarInt_len(Len(self))
        txs_size == sum_sizes(self)
    IN  IF txs_size.tag = "Ok" THEN Ok(tx_count_len + txs_size.val) ELSE txs_size

\* impl_consensus_encoding!: a Vec is its count as a standard compact integer,
\* then each element's encoding in order
RECURSIVE TxUndo_encode_outputs(_)
TxUndo_encode_outputs(outs) ==
    IF outs = <<>> THEN <<>>
    ELSE TxOutUndo_consensus_encode(Head(outs)) \o TxUndo_encode_outputs(Tail(outs))

TxUndo_consensus_encode(self) ==
    VarInt_consensus_encode(Len(self)) \o TxUndo_encode_outputs(self)

RECURSIVE BlockUndo_encode_txs(_)
BlockUndo_encode_txs(txs) ==
    IF txs = <<>> THEN <<>>
    ELSE TxUndo_consensus_encode(Head(txs)) \o BlockUndo_encode_txs(Tail(txs))

BlockUndo_consensus_encode(self) ==
    VarInt_consensus_encode(Len(self)) \o BlockUndo_encode_txs(self)

MaxTx == 2
MaxOut == 2

SeqsUpTo(S, n) == UNION {[1 .. k -> S] : k \in 0 .. n}

SampleOutputs ==
    {TxOutUndoOf([h |-> 0, cb |-> c, rb |-> 0, ac |-> 10, sc |-> 6]) : c \in BOOLEAN}

BlockUndos == SeqsUpTo(SeqsUpTo(SampleOutputs, MaxOut), MaxTx)

InitSize ==
    /\ build \in Builds
    /\ pc = "blk_idle"
    /\ blk \in BlockUndos
    /\ size_result = None
    /\ AmtIdle
    /\ CodecIdle

\* BlockUndo::consensus_encode(blk, sink)
EncodeBlock ==
    /\ pc = "blk_idle"
    /\ out' = BlockUndo_consensus_encode(blk)
    /\ pc' = "blk_encoded"
    /\ UNCHANGED <<build, fields, src, x, wire, pos, decodeLocals, result,
                   amtVars, sizeVars>>

\* BlockUndo::get_size(blk)
GetSize ==
    /\ pc = "blk_encoded"
    /\ size_result' = BlockUndo_get_size(blk)
    /\ pc' = "blk_sized"
    /\ UNCHANGED <<build, blk, amtVars, codecVars>>

NextSize ==
    \/ EncodeBlock
    \/ GetSize

SpecSize == InitSize /\ [][NextSize]_vars

\* ================================================================ properties
\* the amount a packed integer stands for, for arguments of any size
ExactAmountOf(v) ==
    IF v = <<>> THEN <<>>
    ELSE LET xm == DecSub(v, <<1>>)
             e == DecRem(xm, 10)
             q == DecDiv(xm, 10)
             m == IF e < 9
                  THEN DecAdd(DecMulSmallC(DecDiv(q, 9), 10, 0), ToDec(DecRem(q, 9) + 1))
                  ELSE DecAdd(q, <<1>>)
         IN  [i \in 1 .. e |-> 0] \o DecNorm(m)

\* the amount fits the usize of the build
Fits(a, bld) == DecLess(a, UsizeRange(bld.bits))

\* the wire layout the encoder is to write for x
EncodedLayout ==
    VarInt2_consensus_encode(pack(x.height, x.is_coin_base)) \o <<0>>
        \o VarInt2_consensus_encode(fields.ac)
        \o VarInt2_consensus_encode(x.script_pubkey.code) \o x.script_pubkey.payload

\* the reader holds the record of fields without its final script-payload byte,
\* and the record is one the build can hold
LastPayloadByteMissing ==
    /\ src = "wire"
    /\ script_len(fields.sc) >= 1
    /\ wire = SubSeq(Frame(fields), 1, Len(Frame(fields)) - 1)
    /\ Fits(ExactAmount(fields.ac), build)

\* bytes of the three packed integers and the reserved byte in front of the payload
HeaderLen ==
    Len(VarInt2_consensus_encode(height_code)) + 1
        + Len(VarInt2_consensus_encode(amount_compressed))
        + Len(VarInt2_consensus_encode(script_len_code))

\* C1: decoding the bytes consensus_encode wrote for x succeeds and returns x.
C1_RoundTrip ==
    (pc = "done" /\ src = "encoded") => result = Ok(x)

\* C2: consensus_encode writes the packed height*2+coinbase integer, the reserved
\* byte 0x00, the packed compressed amount and the compressed-script bytes, in
\* this order and nothing else.
C2_EncodeLayout ==
    pc = "encoded" => out = EncodedLayout

\* C3: BlockUndo::get_size returns, for every BlockUndo, the exact length of its
\* wire encoding, and always returns a value.
C3_GetSizeExact ==
    pc = "blk_sized" => size_result = Ok(Len(out))

\* C4: whenever a varint read, the reserved-byte read, the payload read or the
\* compressed-script collaborator fails, consensus_decode returns an Err value to
\* the caller; it never panics.  (Records whose amount overflows usize are left
\* to C9.)
C4_DecodeErrorsReturned ==
    (pc = "done" /\ src = "wire" /\ Fits(ExactAmount(amount_compressed), build))
        => result.tag \in {"Ok", "Err"}

\* C5: the amount consensus_decode holds is the specified decompression of the
\* packed amount read from the wire whenever that amount is within the range of
\* usize: mantissa times 10^exponent, with 0 -> 0, 1 -> 1, 2 -> 10, 10 -> 10^9.
C5_AmountFormula ==
    /\ (pc \in {"script_code", "payload", "script"}
            /\ Fits(ExactAmount(amount_compressed), build))
        => /\ amount = ExactAmount(amount_compressed)
           /\ amount_compressed = 0 => amount = <<>>
           /\ amount_compressed = 1 => DecVal(amount) = 1
           /\ amount_compressed = 2 => DecVal(amount) = 10
           /\ amount_compressed = 10 => DecVal(amount) = 1000000000
    /\ (pc = "done" /\ src = "wire" /\ result.tag = "Ok"
            /\ Fits(ExactAmount(amount_compressed), build))
        => result.val.amount = ExactAmount(amount_compressed)

C5_Witness ==
    /\ pc = "done"
    /\ result.tag = "Ok"
    /\ amount_compressed = 811
    /\ DecVal(result.val.amount) = 91

\* C6: after the type code c the decoder reads exactly L(c) bytes and hands the
\* script decoder a buffer of L(c) + 1 bytes: c first, then the payload in wire
\* order.
C6_ScriptBuffer ==
    pc = "script" =>
        LET L == script_len(script_len_code)
        IN  /\ Len(script_pubkey_buf) = L + 1
            /\ script_pubkey_buf[1] = script_len_code
            /\ Tail(script_pubkey_buf) = SubSeq(wire, pos - L + 1, pos)
            /\ pos = HeaderLen + L

C8_UnpackInverse ==
    (src \in {"wire", "encoded"} /\ pos >= 1) =>
        /\ is_coin_base = (height_code % 2 = 1)
        /\ height = height_code \div 2
        /\ pack(height, is_coin_base) = height_code
        /\ src = "wire" => (height = fields.h /\ is_coin_base = fields.cb)

C8_Witness ==
    /\ src = "wire"
    /\ pos >= 1
    /\ fields.h = 64
    /\ fields.cb
    /\ height_code = 129
    /\ height = 64
    /\ is_coin_base

\* C9: decompress_txout_amt returns the exact value n * 10^exponent, or fails
\* with a FormatError when that product does not fit usize; it never returns a
\* wrapped amount and never panics.
C9_OverflowIsFormatError ==
    pc = "amt_done" =>
        IF Fits(ExactAmountOf(value_compressed), build)
        THEN amt_result = Ok(ExactAmountOf(value_compressed))
        ELSE amt_result = Err("FormatError")

\* C10: two distinct packed integers whose amounts fit usize never decompress to
\* the same amount.
C10_Injective ==
    (/\ pc = "amt_done"
     /\ Fits(ExactAmountOf(value_compressed), build)
     /\ Fits(ExactAmountOf(other_compressed), build)
     /\ amt_result.tag = "Ok"
     /\ other_result.tag = "Ok"
     /\ amt_result.val = other_result.val)
        => value_compressed = other_compressed

C10_Witness ==
    /\ pc = "amt_done"
    /\ value_compressed = ToDec(91)
    /\ other_compressed = ToDec(100)
    /\ amt_result = Ok(ToDec(11))
    /\ other_result = Ok([i \in 1 .. 9 |-> 0] \o <<0, 1>>)

====
